---- MODULE Spec2Model ----
(***************************************************************************)
(* A model of src/naver_shopping_crawler.py: crawl_naver_shopping (the     *)
(* page loop, the per-block field parsing, the filter, the accumulation)   *)
(* and the presentation sort of the entry point.                           *)
(*                                                                         *)
(* Texts are sequences of characters, each a string.  The Hangul           *)
(* characters of the source are written romanised, one string each: "won"  *)
(* (U+C6D0), "byeol" "jeom" (U+BCC4 U+C810), "ri" "byu" (U+B9AC U+BDF0),   *)
(* "ga" (U+AC00, standing for any other letter); "^2" is SUPERSCRIPT TWO   *)
(* (U+00B2).  An element handle of a block is [found, text]:               *)
(* locator(...).inner_text() raises when no element is found and returns   *)
(* the text otherwise.  An Optional value is                               *)
(* a sequence of length 0 (None) or 1.  A float is [nan, m, e]: NaN, or    *)
(* the value m / 10^e with the least e.                                    *)
(***************************************************************************)
EXTENDS Integers, Sequences, FiniteSets, TLC

VARIABLES
    pc,           \* "start" | "loop" | "returned" | "raised" | "sorted"
    playwright,   \* the sync_playwright() context: "idle" | "running" | "stopped"
    browser,      \* "none" | "open" | "closed" (closed = browser.close() was called)
    min_rating,   \* argument
    min_reviews,  \* argument
    max_pages,    \* argument
    page_idx,     \* the loop variable (0 before the first iteration)
    requested,    \* the page indices page.goto was called with, in call order
    primaryHits,  \* Optional: how many locators the primary selector returned
                  \* on this page (None: not queried)
    secondaryHits,\* Optional: the same for the secondary selector
    items,        \* number of locators in `items`
    item_idx,     \* number of them the inner loop has taken
    item,         \* the block under the locator taken last
    name,         \* local
    price,        \* local, Optional[int]
    rating,       \* local, Optional[float]
    reviews,      \* local
    results,      \* the accumulating list
    returned,     \* Optional: the list handed to the caller
    data          \* the entry point's `data` after sorted()

vars == << pc, playwright, browser, min_rating, min_reviews, max_pages, page_idx,
           requested, primaryHits, secondaryHits, items, item_idx, item, name,
           price, rating, reviews, results, returned, data >>

---------------------------------------------------------------------------
(* Bounds of the model. *)
MaxPages == 2
MaxItems == 3
MaxLen == 2
MaxData == 4

---------------------------------------------------------------------------
(* Optional values and texts. *)
None == << >>
Some(v) == << v >>

DecDigits == {"0", "1", "2", "3", "4", "5", "6", "7", "8", "9"}

\* str.isdigit() also accepts digit characters that int() rejects, such as
\* the superscript two.
DigitChars == DecDigits \cup {"^2"}

Whitespace == {" "}

DigitVal(c) ==
    CASE c = "0" -> 0 [] c = "1" -> 1 [] c = "2" -> 2 [] c = "3" -> 3
      [] c = "4" -> 4 [] c = "5" -> 5 [] c = "6" -> 6 [] c = "7" -> 7
      [] c = "8" -> 8 [] c = "9" -> 9

\* str.replace(old, ""): the non-overlapping occurrences, left to right.
RECURSIVE Replace(_, _)
Replace(s, old) ==
    IF Len(s) < Len(old) THEN s
    ELSE IF SubSeq(s, 1, Len(old)) = old
         THEN Replace(SubSeq(s, Len(old) + 1, Len(s)), old)
         ELSE << Head(s) >> \o Replace(Tail(s), old)

RECURSIVE LStrip(_)
LStrip(s) ==
    IF s # << >> /\ Head(s) \in Whitespace THEN LStrip(Tail(s)) ELSE s

RECURSIVE RStrip(_)
RStrip(s) ==
    IF s # << >> /\ s[Len(s)] \in Whitespace
    THEN RStrip(SubSeq(s, 1, Len(s) - 1)) ELSE s

\* str.strip()
Strip(s) == RStrip(LStrip(s))

\* str.isdigit(): non-empty and every character a digit character.
IsDigit(s) == s # << >> /\ \A i \in 1..Len(s) : s[i] \in DigitChars

\* int(s) for a text that passed isdigit(): ValueError unless every
\* character is a decimal digit.
IntRaises(s) == s = << >> \/ \E i \in 1..Len(s) : s[i] \notin DecDigits

RECURSIVE IntValue(_)
IntValue(s) ==
    IF s = << >> THEN 0
    ELSE 10 * IntValue(SubSeq(s, 1, Len(s) - 1)) + DigitVal(s[Len(s)])

---------------------------------------------------------------------------
(* float *)
NaN == [nan |-> TRUE, m |-> 0, e |-> 0]

RECURSIVE Float(_, _)
Float(m, e) ==
    IF e > 0 /\ m % 10 = 0 THEN Float(m \div 10, e - 1)
    ELSE [nan |-> FALSE, m |-> m, e |-> e]

RECURSIVE Pow10(_)
Pow10(n) == IF n = 0 THEN 1 ELSE 10 * Pow10(n - 1)

\* a < b on floats: false when either side is NaN.
FloatLt(a, b) == ~a.nan /\ ~b.nan /\ a.m * Pow10(b.e) < b.m * Pow10(a.e)

Unsigned(s) == IF s # << >> /\ Head(s) = "-" THEN Tail(s) ELSE s

IsDecimalLiteral(s) ==
    /\ \A i \in 1..Len(s) : s[i] \in DecDigits \cup {"."}
    /\ Cardinality({i \in 1..Len(s) : s[i] = "."}) <= 1
    /\ \E i \in 1..Len(s) : s[i] \in DecDigits

\* float(s) raises ValueError unless s is [-]digits[.digits] or [-]nan.
FloatRaises(s) ==
    ~(Unsigned(s) = << "n", "a", "n" >> \/ IsDecimalLiteral(Unsigned(s)))

FloatValue(s) ==
    LET u == Unsigned(s)
        sign == IF u = s THEN 1 ELSE -1
        dot == IF \E i \in 1..Len(u) : u[i] = "."
               THEN CHOOSE i \in 1..Len(u) : u[i] = "." ELSE Len(u) + 1
        digits == SelectSeq(u, LAMBDA c : c \in DecDigits)
    IN  IF u = << "n", "a", "n" >> THEN NaN
        ELSE Float(sign * IntValue(digits), IF dot > Len(u) THEN 0 ELSE Len(u) - dot)

---------------------------------------------------------------------------
(* The four extractions of one block. *)
Missing == [found |-> FALSE, text |-> << >>]
Elem(t) == [found |-> TRUE, text |-> t]

\* Locator.inner_text(): raises when the selector matches no element.
InnerTextRaises(el) == ~el.found
InnerText(el) == el.text

\* The outcome of a try body: whether it raised, and the value the local
\* holds when control leaves the body.
Done(v) == [raised |-> FALSE, val |-> v]
Raised(v) == [raised |-> TRUE, val |-> v]

\* A handler that lets the exception through.
Reraise(r) == r

\* except Exception: pass
Pass(r) == [raised |-> FALSE, val |-> r.val]

TryName(el) ==
    IF InnerTextRaises(el) THEN Raised(<< >>)
    ELSE Done(Strip(InnerText(el)))

\* The price parse without the removal of the thousands separators.
TryPriceKeepsSeparators(el) ==
    IF InnerTextRaises(el) THEN Raised(None)
    ELSE LET price_text == Strip(Replace(InnerText(el), << "won" >>))
         IN  IF IsDigit(price_text)
             THEN IF IntRaises(price_text) THEN Raised(None)
                  ELSE Done(Some(IntValue(price_text)))
             ELSE Done(None)

TryPrice(el) ==
    IF InnerTextRaises(el) THEN Raised(None)
    ELSE LET price_text ==
                 Strip(Replace(Replace(InnerText(el), << "," >>), << "won" >>))
         IN  IF IsDigit(price_text)
             THEN IF IntRaises(price_text) THEN Raised(None)
                  ELSE Done(Some(IntValue(price_text)))
             ELSE Done(None)

ParsePrice(el) == Pass(TryPrice(el))

TryRating(el) ==
    IF InnerTextRaises(el) THEN Raised(None)
    ELSE LET rating_text == Strip(InnerText(el))
             arg == Strip(Replace(rating_text, << "byeol", "jeom" >>))
         IN  IF FloatRaises(arg) THEN Raised(None)
             ELSE Done(Some(FloatValue(arg)))

ParseRating(el) == Pass(TryRating(el))

TryReviews(el) ==
    IF InnerTextRaises(el) THEN Raised(0)
    ELSE LET stripped == Strip(InnerText(el))
             review_text ==
                 Strip(Replace(Replace(stripped, << "ri", "byu" >>), << "," >>))
         IN  IF IsDigit(review_text)
             THEN IF IntRaises(review_text) THEN Raised(0)
                  ELSE Done(IntValue(review_text))
             ELSE Done(0)

ParseReviews(el) == Pass(TryReviews(el))

\* if rating is None or rating < min_rating or reviews < min_reviews: continue
Skip(rt, rv, minr, minv) ==
    rt = None \/ FloatLt(rt[1], minr) \/ rv < minv

Record(n, p, rt, rv) ==
    [name |-> n, price |-> p, rating |-> rt[1], reviews |-> rv]

\* The record put in front of the list.
Prepended(rs, rec) == << rec >> \o rs

\* results.append(...)
Appended(rs, rec) == Append(rs, rec)

---------------------------------------------------------------------------
(* sorted(data, key=...) of the entry point. *)
Sentinel == 999999999

\* A key of the price or the sentinel alone.
KeyWithoutAbsentFlag(rec) ==
    << FALSE, IF rec.price # None THEN rec.price[1] ELSE Sentinel >>

\* key=lambda item: (item["price"] is None, price or the sentinel)
Key(rec) ==
    << rec.price = None, IF rec.price # None THEN rec.price[1] ELSE Sentinel >>

\* Tuple comparison: first components first, False before True.
KeyLt(a, b) == (~a[1] /\ b[1]) \/ (a[1] = b[1] /\ a[2] < b[2])

\* sorted() is stable: an element goes after every element whose key is not
\* greater than its own.
RECURSIVE Insert(_, _)
Insert(s, x) ==
    IF s = << >> THEN << x >>
    ELSE IF KeyLt(Key(x), Key(Head(s))) THEN << x >> \o s
         ELSE << Head(s) >> \o Insert(Tail(s), x)

RECURSIVE Sorted(_)
Sorted(s) ==
    IF s = << >> THEN << >>
    ELSE Insert(Sorted(SubSeq(s, 1, Len(s) - 1)), s[Len(s)])

---------------------------------------------------------------------------
(* The inputs the model draws from. *)
Texts(A, n) == UNION { [1..k -> A] : k \in 0..n }

Block(n, p, rt, rv) == [name |-> n, price |-> p, rating |-> rt, reviews |-> rv]

NameA == Elem(<< "a" >>)
NameB == Elem(<< "b" >>)
Price12900 == Elem(<< "1", "2", ",", "9", "0", "0", "won" >>)
Price5000 == Elem(<< "5", ",", "0", "0", "0", "won" >>)
PriceAsk == Elem(<< "ga", "ga", "ga", "ga" >>)
Rating495 == Elem(<< "byeol", "jeom", "4", ".", "9", "5" >>)
Rating48 == Elem(<< "byeol", "jeom", "4", ".", "8" >>)
Reviews1234 == Elem(<< "ri", "byu", " ", "1", ",", "2", "3", "4" >>)
ReviewsNone == Elem(<< "ri", "byu", " ", "ga", "ga" >>)

\* The blocks the pages of the full crawl are made of.
CrawlBlocks ==
    { Block(NameA, Price12900, Rating495, Reviews1234),
      Block(NameB, Missing, Rating495, Reviews1234),
      Block(NameA, Price5000, Rating48, Reviews1234),
      Block(Missing, Price5000, Rating495, Reviews1234) }

NameElems == { Missing, Elem(<< >>), Elem(<< " " >>), NameA }
PriceElems ==
    { Missing, Price12900, PriceAsk, Elem(<< "-", "5" >>), Elem(<< "^2" >>) }
RatingElems ==
    { Missing, Rating495, Rating48, Elem(<< "4", ".", "9" >>),
      Elem(<< "n", "a", "n" >>), Elem(<< "byeol", "jeom" >>), Elem(<< "5" >>) }
ReviewElems ==
    { Missing, Reviews1234, ReviewsNone, Elem(<< "9", "9" >>),
      Elem(<< "1", "0", "0" >>), Elem(<< "^2" >>) }

PriceAlphabet == { "1", "0", ",", "won", " ", "-", "ga", "^2" }
RatingAlphabet == { "4", "9", ".", "-", " ", "n", "byeol", "jeom" }
ReviewAlphabet == { "1", "0", ",", " ", "-", "ri", "byu", "^2" }

\* Every combination of the listed elements, and every short text of each
\* field beside well-formed other fields.
AllBlocks ==
    { Block(n, p, rt, rv) :
        n \in NameElems, p \in PriceElems, rt \in RatingElems, rv \in ReviewElems }
    \cup { Block(NameA, Elem(t), Rating495, Reviews1234) :
             t \in Texts(PriceAlphabet, MaxLen) }
    \cup { Block(NameA, Price12900, Elem(t), Reviews1234) :
             t \in Texts(RatingAlphabet, MaxLen) }
    \cup { Block(NameA, Price12900, Rating495, Elem(t)) :
             t \in Texts(ReviewAlphabet, MaxLen) }

MinRatings == { Float(49, 1), Float(0, 0) }
MinReviews == { 100, 0 }

DataRecords ==
    { [name |-> n, price |-> p, rating |-> Float(495, 2), reviews |-> 1234] :
        n \in { << "a" >>, << "b" >> },
        p \in { None, Some(5000), Some(12900), Some(1000000000) } }

NoItem == Block(Missing, Missing, Missing, Missing)

---------------------------------------------------------------------------
(* crawl_naver_shopping *)
Init ==
    /\ pc = "start"
    /\ playwright = "idle"
    /\ browser = "none"
    /\ min_rating = Float(49, 1)
    /\ min_reviews = 100
    /\ max_pages \in -1..MaxPages
    /\ page_idx = 0
    /\ requested = << >>
    /\ primaryHits = None
    /\ secondaryHits = None
    /\ items = 0
    /\ item_idx = 0
    /\ item = NoItem
    /\ name = << >>
    /\ price = None
    /\ rating = None
    /\ reviews = 0
    /\ results = << >>
    /\ returned = None
    /\ data = << >>

\* with sync_playwright() as playwright: launch, new_page
Enter ==
    /\ pc = "start"
    /\ pc' = "loop"
    /\ playwright' = "running"
    /\ browser' = "open"
    /\ UNCHANGED << min_rating, min_reviews, max_pages, page_idx, requested,
                    primaryHits, secondaryHits, items, item_idx, item, name, price,
                    rating, reviews, results, returned, data >>

\* if not items: the secondary selector is queried only when the primary
\* one matched nothing.
Fallback(primary, secondary) == IF primary = 0 THEN Some(secondary) ELSE None

\* The primary matches whatever their number.
PrimaryOnly(primary, secondary) == primary

\* The items of the page: the primary matches, or the secondary ones when
\* the primary selector matched nothing.
Located(primary, secondary) == IF primary = 0 THEN secondary ELSE primary

\* One iteration of the page loop up to the inner loop: the page loads, and
\* the selectors return `primary` and (if asked) `secondary` locators.
Goto(primary, secondary) ==
    /\ pc = "loop"
    /\ item_idx = items
    /\ page_idx < max_pages
    /\ page_idx' = page_idx + 1
    /\ requested' = Append(requested, page_idx + 1)
    /\ primaryHits' = Some(primary)
    /\ secondaryHits' = Fallback(primary, secondary)
    /\ items' = Located(primary, secondary)
    /\ item_idx' = 0
    /\ UNCHANGED << pc, playwright, browser, min_rating, min_reviews, max_pages,
                    item, name, price, rating, reviews, results, returned, data >>

\* An exception that hands the caller the list accumulated so far.
PropagatePartial ==
    /\ pc' = "raised"
    /\ playwright' = "stopped"
    /\ returned' = Some(results)
    /\ UNCHANGED browser

\* An exception leaves the with block: the context manager exits, nothing
\* is returned.
Propagate ==
    /\ pc' = "raised"
    /\ playwright' = "stopped"
    /\ UNCHANGED << browser, returned >>

\* A failing page load that is swallowed: the page counts as empty.
GotoSkipsFailedPage ==
    /\ pc = "loop"
    /\ item_idx = items
    /\ page_idx < max_pages
    /\ page_idx' = page_idx + 1
    /\ requested' = Append(requested, page_idx + 1)
    /\ primaryHits' = None
    /\ secondaryHits' = None
    /\ items' = 0
    /\ item_idx' = 0
    /\ UNCHANGED << pc, playwright, browser, min_rating, min_reviews, max_pages,
                    item, name, price, rating, reviews, results, returned, data >>

\* page.goto or page.wait_for_timeout raises.
GotoFails ==
    /\ pc = "loop"
    /\ item_idx = items
    /\ page_idx < max_pages
    /\ page_idx' = page_idx + 1
    /\ requested' = Append(requested, page_idx + 1)
    /\ primaryHits' = None
    /\ secondaryHits' = None
    /\ Propagate
    /\ UNCHANGED << min_rating, min_reviews, max_pages, items, item_idx, item,
                    name, price, rating, reviews, results, data >>

\* One iteration of the inner loop, on the block b.
ParseItem(b) ==
    /\ pc = "loop"
    /\ item_idx < items
    /\ item' = b
    /\ item_idx' = item_idx + 1
    /\ LET n == TryName(b.name)
           p == ParsePrice(b.price)
           rt == ParseRating(b.rating)
           rv == ParseReviews(b.reviews)
       IN  IF n.raised
           THEN UNCHANGED << pc, playwright, browser, returned, name, price,
                             rating, reviews, results >>
           ELSE /\ name' = n.val
                /\ price' = p.val
                /\ rating' = rt.val
                /\ reviews' = rv.val
                /\ IF p.raised \/ rt.raised \/ rv.raised
                   THEN Propagate /\ UNCHANGED results
                   ELSE /\ UNCHANGED << pc, playwright, browser, returned >>
                        /\ results' =
                             IF Skip(rt.val, rv.val, min_rating, min_reviews)
                             THEN results
                             ELSE Appended(results,
                                           Record(n.val, p.val, rt.val, rv.val))
    /\ UNCHANGED << min_rating, min_reviews, max_pages, page_idx, requested,
                    primaryHits, secondaryHits, items, data >>

\* The page loop is over: browser.close(), the with block exits, return.
Close ==
    /\ pc = "loop"
    /\ item_idx = items
    /\ page_idx >= max_pages
    /\ browser' = "closed"
    /\ playwright' = "stopped"
    /\ returned' = Some(results)
    /\ pc' = "returned"
    /\ UNCHANGED << min_rating, min_reviews, max_pages, page_idx, requested,
                    primaryHits, secondaryHits, items, item_idx, item, name, price,
                    rating, reviews, results, data >>

\* data = sorted(data, key=...)
Sort ==
    /\ pc = "returned"
    /\ data' = Sorted(returned[1])
    /\ pc' = "sorted"
    /\ UNCHANGED << playwright, browser, min_rating, min_reviews, max_pages,
                    page_idx, requested, primaryHits, secondaryHits, items, item_idx,
                    item, name, price, rating, reviews, results, returned >>

Next ==
    \/ Enter
    \/ \E primary \in 0..MaxItems, secondary \in 0..MaxItems :
         Goto(primary, secondary)
    \/ GotoFails
    \/ \E b \in CrawlBlocks : ParseItem(b)
    \/ Close
    \/ Sort

Spec == Init /\ [][Next]_vars

---------------------------------------------------------------------------
(* One block, of any shape, under the inner loop: the state after the      *)
(* first page of a one-page crawl has loaded with one candidate block.     *)
InitBlock ==
    /\ pc = "loop"
    /\ playwright = "running"
    /\ browser = "open"
    /\ min_rating \in MinRatings
    /\ min_reviews \in MinReviews
    /\ max_pages = 1
    /\ page_idx = 1
    /\ requested = << 1 >>
    /\ primaryHits = Some(1)
    /\ secondaryHits = None
    /\ items = 1
    /\ item_idx = 0
    /\ item = NoItem
    /\ name = << >>
    /\ price = None
    /\ rating = None
    /\ reviews = 0
    /\ results = << >>
    /\ returned = None
    /\ data = << >>

NextBlock ==
    \/ \E b \in AllBlocks : ParseItem(b)
    \/ Close

SpecBlock == InitBlock /\ [][NextBlock]_vars

---------------------------------------------------------------------------
(* The entry point's sort, on any short list the crawl can return.         *)
InitSort ==
    /\ pc = "returned"
    /\ playwright = "stopped"
    /\ browser = "closed"
    /\ min_rating = Float(49, 1)
    /\ min_reviews = 100
    /\ max_pages = 0
    /\ page_idx = 0
    /\ requested = << >>
    /\ primaryHits = None
    /\ secondaryHits = None
    /\ items = 0
    /\ item_idx = 0
    /\ item = NoItem
    /\ name = << >>
    /\ price = None
    /\ rating = None
    /\ reviews = 0
    /\ results \in Texts(DataRecords, MaxData)
    /\ returned = Some(results)
    /\ data = << >>

SpecSort == InitSort /\ [][Sort]_vars

---------------------------------------------------------------------------
(* Properties. *)

\* The inner loop has taken a block and its name was read.
Parsed == item_idx > 0 /\ item.name.found

\* The block taken has a name: a title element with text in it.
HasName == Parsed /\ Strip(item.name.text) # << >>

\* a >= b on floats: false when either side is NaN.
FloatGe(a, b) == ~a.nan /\ ~b.nan /\ a.m * Pow10(b.e) >= b.m * Pow10(a.e)

\* rating is present, rating >= min_rating and reviews >= min_reviews.
Qualifies ==
    rating # None /\ FloatGe(rating[1], min_rating) /\ reviews >= min_reviews

\* C1: the record of a block that has a name is in the returned list if and
\* only if its rating is present, rating >= min_rating and reviews >=
\* min_reviews, whatever its price; so every returned record satisfies the
\* three conditions.
C1_KeptIffQualifies ==
    (pc = "returned" /\ HasName) =>
        /\ (returned[1] # << >>) <=> Qualifies
        /\ \A i \in 1..Len(returned[1]) :
             /\ FloatGe(returned[1][i].rating, min_rating)
             /\ returned[1][i].reviews >= min_reviews

\* C2: a block whose title element is absent or whose trimmed title is
\* empty produces no record: every returned record has a non-empty name.
C2_NamedRecords ==
    pc = "returned" =>
        \A i \in 1..Len(returned[1]) : returned[1][i].name # << >>

C4_NoPageErrorFatal == pc # "raised"

\* C4 as amended: a page that fails to load ends the call with the error,
\* with nothing returned and nothing added to the list; a page that loads
\* adds nothing by itself and leaves the loop running, also when it has no
\* items at all.
C4_PageOutcome ==
    [][ /\ GotoFails => (pc' = "raised" /\ returned' = None /\ results' = results)
        /\ (page_idx' # page_idx /\ primaryHits' # None) =>
              (pc' = "loop" /\ results' = results /\ returned' = None)
      ]_vars

C4_Witness == pc = "raised" /\ page_idx = 1 /\ max_pages = 2 /\ items = 0

\* C5: a page load that raises on page k is fatal to the call: pages 1..k
\* were requested and no later one is, and no list is returned, not even
\* the records of the pages before k.
C5_FatalNoResult ==
    pc = "raised" =>
        /\ returned = None
        /\ requested = [i \in 1..page_idx |-> i]
        /\ ~ENABLED Next

C5_Witness ==
    pc = "raised" /\ page_idx = 2 /\ Len(results) >= 2 /\ returned = None

\* The price text as the claim describes it: every "," and "won" removed,
\* then trimmed.
Remainder(t) ==
    LET kept == SelectSeq(t, LAMBDA c : c \notin {",", "won"})
        solid == {i \in 1..Len(kept) : kept[i] # " "}
    IN  IF solid = {} THEN << >>
        ELSE SubSeq(kept, CHOOSE i \in solid : \A j \in solid : i <= j,
                          CHOOSE i \in solid : \A j \in solid : i >= j)

DecimalRun(t) == t # << >> /\ \A i \in 1..Len(t) : t[i] \in DecDigits

RECURSIVE Decimal(_, _)
Decimal(t, i) ==
    IF i > Len(t) THEN 0
    ELSE DigitVal(t[i]) * Pow10(Len(t) - i) + Decimal(t, i + 1)

ExpectedPrice(el) ==
    IF el.found /\ DecimalRun(Remainder(el.text))
    THEN Some(Decimal(Remainder(el.text), 1)) ELSE None

\* C6: the parsed price is the integer value of the text without "," and
\* "won", trimmed, when that is a run of decimal digits, and absent
\* otherwise and when the element is missing; the parse never raises and a
\* present price is a nonnegative integer ("12,900won" gives 12900, a
\* non-numeric text gives absent).
C6_PriceParse ==
    Parsed =>
        /\ pc # "raised"
        /\ price = ExpectedPrice(item.price)
        /\ price # None => price[1] \in Nat
        /\ item.price = Price12900 => price = Some(12900)
        /\ item.price = PriceAsk => price = None

C6_Witness ==
    /\ Parsed
    /\ item.price = Elem(<< " ", "1", "," >>) \/ item.price = Price12900
    /\ price # None

\* C7: the sorted list is a permutation of the returned one in which every
\* price-present record precedes every price-absent one, the present prices
\* do not decrease, and records of equal price, or all without price, keep
\* their order.
C7_SortOrder ==
    pc = "sorted" =>
        /\ Len(data) = Len(returned[1])
        /\ \A i \in 1..Len(data) :
             LET same(rec) == rec.price = data[i].price
             IN  SelectSeq(data, same) = SelectSeq(returned[1], same)
        /\ \A i, j \in 1..Len(data) :
             i < j =>
               /\ data[i].price = None => data[j].price = None
               /\ (data[i].price # None /\ data[j].price # None) =>
                     data[i].price[1] <= data[j].price[1]

C7_Witness ==
    /\ pc = "sorted"
    /\ Len(data) = 3
    /\ returned[1][1].price = None
    /\ returned[1][2].name = << "b" >>
    /\ data[1].price = Some(5000)
    /\ data[2].price = Some(5000)
    /\ data[1].name = << "b" >>
    /\ data[2].name = << "a" >>

\* C8: for a block with a name, a field whose lookup or parse faults takes
\* its own default (price absent, rating absent, reviews 0), every other
\* field takes the value of its own text, nothing is raised out of the
\* block, and reviews is a nonnegative integer.
C8_FieldIsolation ==
    Parsed =>
        /\ pc # "raised"
        /\ price = IF TryPrice(item.price).raised THEN None
                   ELSE TryPrice(item.price).val
        /\ rating = IF TryRating(item.rating).raised THEN None
                    ELSE TryRating(item.rating).val
        /\ reviews = IF TryReviews(item.reviews).raised THEN 0
                     ELSE TryReviews(item.reviews).val
        /\ reviews \in Nat

C8_Witness ==
    /\ Parsed
    /\ ~item.price.found
    /\ item.reviews = Elem(<< "^2" >>)
    /\ rating = Some(Float(495, 2))
    /\ price = None
    /\ reviews = 0
    /\ pc = "returned"

\* C9: without a failing page load the pages 1..max_pages are requested in
\* ascending order, once each (none when max_pages <= 0), a page only after
\* every block of the page before it was parsed; the list only grows, at
\* its end, by the record of the block just parsed, and is returned as it
\* stands.
C9_DiscoveryOrder ==
    /\ [](pc = "returned" =>
            /\ requested = [i \in 1..(IF max_pages > 0 THEN max_pages ELSE 0) |-> i]
            /\ returned = Some(results))
    /\ [][ /\ requested' # requested =>
                /\ item_idx = items
                /\ requested' = Append(requested, Len(requested) + 1)
           /\ results' # results =>
                /\ item_idx' = item_idx + 1
                /\ results' = Append(results, Record(name', price', rating', reviews'))
         ]_vars

C9_Witness ==
    /\ pc = "returned"
    /\ requested = << 1, 2 >>
    /\ Len(results) = 3
    /\ results[1].price = None
    /\ results[2].price # None

\* C10: the secondary selector is queried only when the primary one matches
\* nothing, and its matches are then the items of the page; a page on which
\* both match nothing adds no record and raises nothing, the loop goes on,
\* and the records of the other pages are returned as they are.
C10_SelectorFallback ==
    /\ []( /\ secondaryHits # None <=> primaryHits = Some(0)
           /\ primaryHits # None =>
                items = IF primaryHits[1] = 0 THEN secondaryHits[1]
                        ELSE primaryHits[1] )
    /\ [][ /\ (page_idx' # page_idx /\ primaryHits' = Some(0)
                 /\ secondaryHits' = Some(0)) =>
                (pc' = "loop" /\ results' = results /\ items' = 0)
           /\ pc' = "returned" => returned' = Some(results)
         ]_vars

C10_Witness ==
    /\ pc = "returned"
    /\ max_pages = 2
    /\ primaryHits = Some(0)
    /\ secondaryHits = Some(0)
    /\ Len(returned[1]) = 3

====
